---- MODULE Spec2Model ----
(***************************************************************************)
(* Model of src/main.py: the NFZ agreements scraper.                       *)
(*                                                                         *)
(*   fetch                        retry loop with exponential backoff      *)
(*   html_table_to_df_and_links   table -> DataFrame (named / positional)  *)
(*   get_all_providers_parallel   page 1, then pages 2.. on a thread pool  *)
(*   process_single_provider      agreements -> plans -> months            *)
(*   run_pipeline_parallel        fan-out per provider, fan-in, write      *)
(*                                                                         *)
(* Text is a sequence of atoms (one-character or one-word strings); the    *)
(* atoms " " and "/" are the ones the code treats specially.               *)
(***************************************************************************)
EXTENDS Integers, Sequences, FiniteSets, TLC

VARIABLES
    \* ---- fetch (src/main.py:38-53)
    f_max,        \* argument max_retries
    f_outcomes,   \* what the server does on the 1st, 2nd, ... request
    f_attempt,    \* loop variable `attempt`
    f_pc,         \* "idle" | "loop" | "sleep" | "returned" | "raised"
    f_result,     \* return value
    f_requests,   \* number of session.get calls issued
    f_waits,      \* time.sleep arguments so far, in milliseconds
    \* ---- fetch_cached (src/main.py:33-36)
    c_cache,      \* the lru_cache: entries, least recently used first
    c_log,        \* the calls made so far, with what each returned
    \* ---- process_single_provider alone (src/main.py:137-218)
    e_pc,         \* "idle" | "call" | "done"
    e_row,        \* argument prov_row
    e_tree,       \* what the portal serves below this provider
    e_result,     \* outcome of the call
    e_urls,       \* the URL strings the call built from the provider code
    \* ---- html_table_to_df_and_links cell by cell (src/main.py:62-90)
    t_pc,         \* "idle" | "call" | "done"
    t_headers,    \* texts of the table's th cells
    t_trs,        \* the table's tr elements: td texts and first-cell href
    t_df,         \* the DataFrame and the links returned
    \* ---- the pipeline (src/main.py:92-135, 220-265)
    pages,        \* the portal's provider listing, page number -> content
    pc,           \* position of the main thread
    fut,          \* page futures of the walker's executor
    seen,         \* page futures already yielded by as_completed
    providers,    \* the list `providers`, as page numbers in append order
    providers_df, \* return value of get_all_providers_parallel
    task,         \* provider futures of the pipeline's executor
    task_result,  \* what each provider task returned or raised
    collected,    \* provider futures already yielded by as_completed
    all_records,  \* the list `all_records`
    df_final,     \* the final relation
    outcome,      \* how run_pipeline_parallel ended
    writes,       \* number of to_excel calls
    run,          \* 1 for the first run, 2 for the re-run
    first_run     \* outcome and relation of the first run

cvars == <<c_cache, c_log>>
fvars == <<f_max, f_outcomes, f_attempt, f_pc, f_result, f_requests, f_waits, cvars>>
tvars == <<t_pc, t_headers, t_trs, t_df>>
evars == <<e_pc, e_row, e_tree, e_result, e_urls, tvars>>
pvars == <<pages, pc, fut, seen, providers, providers_df, task, task_result,
           collected, all_records, df_final, outcome, writes, run, first_run>>
vars == <<fvars, evars, pvars>>

\* ------------------------------------------------------------------ bounds
MaxRetriesBound == 3
PageLimit == 4
MaxAgreements == 2
MaxPlans == 1
MaxMonths == 1
MaxCalls == 3
MaxCols == 2
MaxRows == 3
CacheMaxSize == 2

\* ------------------------------------------------------ program constants
BackoffBaseMs == 500
PageWorkers == 5
Year == 2024

\* ------------------------------------------------------------------- text
NoText == <<>>

RECURSIVE LStrip(_)
LStrip(t) == IF t # <<>> /\ Head(t) = " " THEN LStrip(Tail(t)) ELSE t

RECURSIVE RStrip(_)
RStrip(t) ==
    IF t # <<>> /\ t[Len(t)] = " " THEN RStrip(SubSeq(t, 1, Len(t) - 1)) ELSE t

\* str.strip()
Strip(t) == RStrip(LStrip(t))

\* str.split(' ')[0]: the text before the first space
RECURSIVE SplitFirst(_)
SplitFirst(t) ==
    IF t = <<>> \/ Head(t) = " " THEN <<>> ELSE <<Head(t)>> \o SplitFirst(Tail(t))

\* a DataFrame cell: a string, or NaN where concat found no such column
StrCell(t) == [kind |-> "str", text |-> t]
NaNCell == [kind |-> "nan", text |-> NoText]

\* Series.get(key, default)
Get(row, key, default) == IF key \in DOMAIN row THEN row[key] ELSE default

\* ================================================================== fetch
Outcomes == {"ok", "neterr", "status", "timeout"}

\* the exception session.get / raise_for_status raises on each outcome
ExceptionOf(o) ==
    CASE o = "neterr" -> "ConnectionError"
      [] o = "status" -> "HTTPError"
      [] o = "timeout" -> "Timeout"
      [] OTHER -> "none"

\* except requests.exceptions.RequestException
CaughtOnlyConnectionError(exc) == exc = "ConnectionError"
IsRequestException(exc) == exc \in {"ConnectionError", "HTTPError", "Timeout"}

\* wait = 0.5 * (2 ** attempt), in milliseconds
BackoffNoGrowth(attempt) == BackoffBaseMs
Backoff(attempt) == BackoffBaseMs * 2 ^ attempt

NoResult == [kind |-> "unset", attempt |-> 0]
NoneResult == [kind |-> "None", attempt |-> 0]
Body(k) == [kind |-> "body", attempt |-> k]

CacheIdle == c_cache = <<>> /\ c_log = <<>>

FetchLoopIdle ==
    /\ f_max = 0 /\ f_outcomes = <<>> /\ f_attempt = 0 /\ f_pc = "idle"
    /\ f_result = NoResult /\ f_requests = 0 /\ f_waits = <<>>

FetchIdle == FetchLoopIdle /\ CacheIdle

FetchInit ==
    /\ f_max \in 0..MaxRetriesBound
    /\ f_outcomes \in [1..MaxRetriesBound + 1 -> Outcomes]
    /\ f_attempt = 0
    /\ f_pc = "loop"
    /\ f_result = NoResult
    /\ f_requests = 0
    /\ f_waits = <<>>
    /\ CacheIdle

\* line 42 with the range exhausted, then line 53
FetchLoopExit ==
    /\ f_pc = "loop"
    /\ f_attempt >= f_max
    /\ f_pc' = "returned"
    /\ f_result' = NoneResult
    /\ UNCHANGED <<f_max, f_outcomes, f_attempt, f_requests, f_waits>>
    /\ UNCHANGED <<cvars, evars, pvars>>

\* lines 43-50: one pass of the try block and its handler
FetchAttempt ==
    /\ f_pc = "loop"
    /\ f_attempt < f_max
    /\ LET o == f_outcomes[f_attempt + 1]
           exc == ExceptionOf(o)
       IN  /\ f_requests' = f_requests + 1
           /\ IF o = "ok"
              THEN f_pc' = "returned" /\ f_result' = Body(f_attempt)
              ELSE IF ~IsRequestException(exc)
              THEN f_pc' = "raised" /\ f_result' = f_result
              ELSE IF f_attempt = f_max - 1
              THEN f_pc' = "returned" /\ f_result' = NoneResult
              ELSE f_pc' = "sleep" /\ f_result' = f_result
    /\ UNCHANGED <<f_max, f_outcomes, f_attempt, f_waits>>
    /\ UNCHANGED <<cvars, evars, pvars>>

\* lines 51-52, then the next iteration of line 42
FetchSleep ==
    /\ f_pc = "sleep"
    /\ f_waits' = Append(f_waits, Backoff(f_attempt))
    /\ f_attempt' = f_attempt + 1
    /\ f_pc' = "loop"
    /\ UNCHANGED <<f_max, f_outcomes, f_result, f_requests>>
    /\ UNCHANGED <<cvars, evars, pvars>>

\* =========================================================== fetch_cached
\* lru_cache keys a call by its arguments (url, referer); maxsize=1000 is
\* CacheMaxSize at model size
Urls == {"u1", "u2", "u3"}
Referers == {"None", "r1"}
CacheKeys == [url : Urls, referer : Referers]

\* what fetch(url, referer) returns: the body when the server answers one of
\* the attempts, None when every attempt fails
FetchValue(up) == IF up THEN Body(0) ELSE NoneResult

CachedKeys == {c_cache[k].key : k \in 1..Len(c_cache)}
Entry(key) == c_cache[CHOOSE k \in 1..Len(c_cache) : c_cache[k].key = key]
Without(key) == SelectSeq(c_cache, LAMBDA e : e.key # key)

\* the wrapper finds the key: the remembered value is returned, no request is
\* made and the entry becomes the most recently used
CachedHit(key, up) ==
    /\ Len(c_log) < MaxCalls
    /\ key \in CachedKeys
    /\ c_log' = Append(c_log, [key |-> key, up |-> up, real |-> FALSE,
                               result |-> Entry(key).value])
    /\ c_cache' = Append(Without(key), Entry(key))
    /\ UNCHANGED <<f_max, f_outcomes, f_attempt, f_pc, f_result, f_requests, f_waits>>
    /\ UNCHANGED <<evars, pvars>>

\* line 36: the key is not there: fetch runs and whatever it returns, None
\* included, is stored; the least recently used entry makes room
Store(key, value) ==
    LET grown == Append(c_cache, [key |-> key, value |-> value])
    IN  IF Len(grown) > CacheMaxSize THEN Tail(grown) ELSE grown

CachedMiss(key, up) ==
    /\ Len(c_log) < MaxCalls
    /\ key \notin CachedKeys
    /\ c_log' = Append(c_log, [key |-> key, up |-> up, real |-> TRUE,
                               result |-> FetchValue(up)])
    /\ c_cache' = Store(key, FetchValue(up))
    /\ UNCHANGED <<f_max, f_outcomes, f_attempt, f_pc, f_result, f_requests, f_waits>>
    /\ UNCHANGED <<evars, pvars>>

\* ================================================= what the portal serves
\* A response is a table kind and its data rows:
\*   "failed"      fetch gave up and returned None
\*   "empty"       a page whose first table has no data rows
\*   "ragged"      headers match the first row, a later row has more cells
\*   "named"       headers match the first row, no row has more cells: the
\*                 columns carry the header names
\*   "positional"  header count differs from the first row's cell count
\*                 (or there are no th cells): columns are 0, 1, 2, ...
\* Named tables carry the portal's usual headers ("Kod umowy", "Kod produktu
\* kontraktowanego", ...); month tables reuse none of the six record keys.
SeqsUpTo(S, n) == UNION {[1..k -> S] : k \in 1..n}

NoRows == {[kind |-> k, rows |-> <<>>] : k \in {"failed", "empty", "ragged"}}
Unlinked == [kind |-> "failed", rows |-> <<>>]

MonthRows(n) == [m \in 1..n |-> [Miesiac |-> <<"M", ToString(m)>>]]
MonthTables(maxM) ==
    NoRows \cup {[kind |-> "named", rows |-> MonthRows(n)] : n \in 1..maxM}

\* a row without a link in its first cell has nothing behind it
PlanRows(maxM) ==
    {[link |-> FALSE, months |-> Unlinked]}
        \cup {[link |-> TRUE, months |-> mt] : mt \in MonthTables(maxM)}
\* the code reads no row of a positional plans table before it faults, so one
\* such table stands for all of them
HeaderlessPlans ==
    [kind |-> "positional",
     rows |-> <<[link |-> TRUE,
                 months |-> [kind |-> "named", rows |-> MonthRows(1)]]>>]
PlanTables(maxP, maxM) ==
    NoRows
        \cup {[kind |-> "named", rows |-> r] : r \in SeqsUpTo(PlanRows(maxM), maxP)}
        \cup {HeaderlessPlans}

AgreementRows(maxP, maxM) ==
    {[link |-> FALSE, plans |-> Unlinked]}
        \cup {[link |-> TRUE, plans |-> pt] : pt \in PlanTables(maxP, maxM)}
AgreementTables(maxA, maxP, maxM) ==
    NoRows
        \cup {[kind |-> k, rows |-> r] :
                k \in {"named", "positional"},
                r \in SeqsUpTo(AgreementRows(maxP, maxM), maxA)}

\* everything below one provider: the response to its agreements request
Trees(maxA) == AgreementTables(maxA, MaxPlans, MaxMonths)

\* cell texts of the portal
AgreementCode(code, a) == code \o <<"-", ToString(a), " ", "opis">>
ProductCode(a, i) == <<"P", ToString(a), ".", ToString(i), " ", "opis">>

\* ========================================== get_first_table_soup, extract
NoTable == [kind |-> "None", rows |-> <<>>]

\* fetch(url) followed by get_first_table_soup(html): None when there is no html
FetchTable(response) == IF response.kind = "failed" THEN NoTable ELSE response

\* html_table_to_df_and_links: the DataFrame (columns, rows; each row keeps its
\* link) or the ValueError pandas raises on a row longer than the header
html_table_to_df_and_links(table) ==
    IF table.kind \in {"None", "empty"}
    THEN [raised |-> FALSE, columns |-> "none", rows |-> <<>>]
    ELSE IF table.kind = "ragged"
    THEN [raised |-> TRUE, columns |-> "none", rows |-> <<>>]
    ELSE [raised |-> FALSE, columns |-> table.kind, rows |-> table.rows]

\* ---- the same function cell by cell
HeaderNames(n) == [c \in 1..n |-> "H" \o ToString(c)]
Cell(r, c) == [row |-> r, col |-> c]
NoneCell == [row |-> 0, col |-> 0]
Tr(r, width, href) == [tds |-> [c \in 1..width |-> Cell(r, c)], href |-> href]

\* a table of up to maxR tr elements of up to maxC td cells; a tr without td
\* cells (a header row) carries no link
TrLists(maxR, maxC) ==
    UNION {{[r \in 1..n |-> Tr(r, w[r], h[r] /\ w[r] > 0)] :
               w \in [1..n -> 0..maxC], h \in [1..n -> BOOLEAN]} : n \in 0..maxR}

MaxOf(S) == CHOOSE x \in S : \A y \in S : y <= x

NoFrame == [raised |-> FALSE, columns |-> <<>>, rows |-> <<>>, links |-> <<>>]

\* lines 72-84: the rows and links of the tr elements that have td cells
DataRows(trs) == SelectSeq(trs, LAMBDA tr : tr.tds # <<>>)

\* line 89 and pd.DataFrame: the header names are the columns when their
\* number equals the cell count of rows[0], otherwise the columns are the
\* positions 0, 1, ...; a row shorter than the columns is filled with None and
\* a row longer than the given columns makes pandas raise ValueError
TableFrame(headers, trs) ==
    LET data == DataRows(trs)
        rows == [r \in 1..Len(data) |-> data[r].tds]
        links == [r \in 1..Len(data) |-> IF data[r].href THEN "url" ELSE "None"]
        width == MaxOf({Len(rows[r]) : r \in 1..Len(rows)})
        named == headers # <<>> /\ Len(headers) = Len(rows[1])
        columns == IF named THEN headers
                   ELSE [c \in 1..width |-> ToString(c - 1)]
    IN  IF rows = <<>> THEN NoFrame
        ELSE IF named /\ width > Len(headers)
        THEN [NoFrame EXCEPT !.raised = TRUE]
        ELSE [raised |-> FALSE,
              columns |-> columns,
              rows |-> [r \in 1..Len(rows) |->
                          [c \in 1..Len(columns) |->
                              IF c <= Len(rows[r]) THEN rows[r][c] ELSE NoneCell]],
              links |-> links]

TableIdle == t_pc = "idle" /\ t_headers = <<>> /\ t_trs = <<>> /\ t_df = NoFrame

TableInit ==
    /\ t_pc = "call"
    /\ t_headers \in {HeaderNames(n) : n \in 0..MaxCols}
    /\ t_trs \in TrLists(MaxRows, MaxCols)
    /\ t_df = NoFrame

TableCall ==
    /\ t_pc = "call"
    /\ t_df' = TableFrame(t_headers, t_trs)
    /\ t_pc' = "done"
    /\ UNCHANGED <<t_headers, t_trs>>
    /\ UNCHANGED <<e_pc, e_row, e_tree, e_result, e_urls>>
    /\ UNCHANGED <<fvars, pvars>>

\* ================================================ process_single_provider
\* lines 203-213: one record per month row
MonthRecordsTwice(ident, kod_umowy, product_code, months_rows) ==
    [m \in 1..2 * Len(months_rows) |->
        [Rok |-> Year,
         KodSwiadczeniodawcy |-> ident.code,
         Nazwa |-> ident.name,
         Miasto |-> ident.city,
         KodUmowy |-> kod_umowy,
         KodProduktu |-> product_code,
         month |-> months_rows[((m - 1) % Len(months_rows)) + 1]]]
MonthRecords(ident, kod_umowy, product_code, months_rows) ==
    [m \in 1..Len(months_rows) |->
        [Rok |-> Year,
         KodSwiadczeniodawcy |-> ident.code,
         Nazwa |-> ident.name,
         Miasto |-> ident.city,
         KodUmowy |-> kod_umowy,
         KodProduktu |-> product_code,
         month |-> months_rows[m]]]

\* lines 180-213: the loop over the plans of agreement a, from plan i on
RECURSIVE PlanLoop(_, _, _, _, _, _)
PlanLoop(ident, agr_columns, a, plan_rows, i, records) ==
    IF i > Len(plan_rows)
    THEN [raised |-> FALSE, records |-> records]
    ELSE IF ~plan_rows[i].link
    THEN PlanLoop(ident, agr_columns, a, plan_rows, i + 1, records)
    ELSE LET months_df == html_table_to_df_and_links(FetchTable(plan_rows[i].months))
         IN  IF months_df.raised
             THEN [raised |-> TRUE, records |-> records]
             ELSE IF months_df.rows = <<>>
             THEN PlanLoop(ident, agr_columns, a, plan_rows, i + 1, records)
             \* line 198: k.lower() on an integer column label
             ELSE IF agr_columns = "positional"
             THEN [raised |-> TRUE, records |-> records]
             ELSE PlanLoop(ident, agr_columns, a, plan_rows, i + 1,
                           records \o MonthRecords(ident,
                                                   AgreementCode(ident.code, a),
                                                   ProductCode(a, i),
                                                   months_df.rows))

\* lines 164-213: the loop over the agreements, from agreement a on
RECURSIVE AgreementLoop(_, _, _, _, _)
AgreementLoopStopsAtEmptyPlans(ident, agr_columns, agr_rows, a, records) ==
    IF a > Len(agr_rows)
    THEN [raised |-> FALSE, records |-> records]
    ELSE IF ~agr_rows[a].link
    THEN AgreementLoop(ident, agr_columns, agr_rows, a + 1, records)
    ELSE LET df_plans == html_table_to_df_and_links(FetchTable(agr_rows[a].plans))
         IN  IF df_plans.raised
             THEN [raised |-> TRUE, records |-> records]
             ELSE IF df_plans.rows = <<>>
             THEN [raised |-> FALSE, records |-> records]
             ELSE IF df_plans.columns = "positional"
             THEN [raised |-> TRUE, records |-> records]
             ELSE LET r == PlanLoop(ident, agr_columns, a, df_plans.rows, 1, records)
                  IN  IF r.raised
                      THEN r
                      ELSE AgreementLoop(ident, agr_columns, agr_rows, a + 1, r.records)
AgreementLoop(ident, agr_columns, agr_rows, a, records) ==
    IF a > Len(agr_rows)
    THEN [raised |-> FALSE, records |-> records]
    ELSE IF ~agr_rows[a].link
    THEN AgreementLoop(ident, agr_columns, agr_rows, a + 1, records)
    ELSE LET df_plans == html_table_to_df_and_links(FetchTable(agr_rows[a].plans))
         IN  IF df_plans.raised
             THEN [raised |-> TRUE, records |-> records]
             ELSE IF df_plans.rows = <<>>
             THEN AgreementLoop(ident, agr_columns, agr_rows, a + 1, records)
             \* line 178: c.lower() on an integer column label
             ELSE IF df_plans.columns = "positional"
             THEN [raised |-> TRUE, records |-> records]
             ELSE LET r == PlanLoop(ident, agr_columns, a, df_plans.rows, 1, records)
                  IN  IF r.raised
                      THEN r
                      ELSE AgreementLoop(ident, agr_columns, agr_rows, a + 1, r.records)

\* lines 149-218: the try block; the handler logs and falls through to
\* `return records`
Returned(faulted, records) ==
    [status |-> "returned", faulted |-> faulted, records |-> records]
Raised == [status |-> "raised", faulted |-> TRUE, records |-> <<>>]

TryBlock(ident, tree) ==
    LET agreements_df == html_table_to_df_and_links(FetchTable(tree))
    IN  IF agreements_df.raised
        THEN Returned(TRUE, <<>>)
        ELSE IF agreements_df.rows = <<>>
        THEN Returned(FALSE, <<>>)
        ELSE LET r == AgreementLoop(ident, agreements_df.columns,
                                    agreements_df.rows, 1, <<>>)
             IN  Returned(r.raised, r.records)

\* lines 137-218
process_single_provider(prov_row, tree) ==
    LET kod == Get(prov_row, "Kod", StrCell(NoText))
    IN  \* line 139: NaN has no strip(); raised before the try block
        IF kod.kind = "nan"
        THEN Raised
        ELSE LET prov_code_raw == Strip(kod.text)
             IN  IF prov_code_raw = NoText
                 THEN Returned(FALSE, <<>>)
                 ELSE TryBlock([code |-> prov_code_raw,
                                name |-> Get(prov_row, "Nazwa", StrCell(NoText)).text,
                                city |-> Get(prov_row, "Miasto", StrCell(NoText)).text],
                               tree)

\* ---- the URLs built from the provider code; the fixed parts of a URL are
\* single atoms, so an atom "/" in a URL comes from the code
Replace(text, old, new) ==
    [k \in 1..Len(text) |-> IF text[k] = old THEN new ELSE text[k]]

\* line 143
Encoded(prov_code_raw) == Replace(prov_code_raw, "/", "%2F")

\* line 151
AgreementsUrl(prov_code_raw) ==
    <<"{BASE}:umowy:Agreements:GetAgreements?Year=2024&ServiceType=03&Code=">>
        \o Encoded(prov_code_raw) \o <<"&Branch=06">>

\* line 152
AgreementsReferer(prov_code_raw) ==
    <<"{BASE}:umowy:Provider:Details?Code=">>
        \o prov_code_raw \o <<"&Year=2024&Branch=06&ServiceType=03">>

\* line 188
MonthsReferer(prov_code_raw) ==
    <<"{BASE}:umowy:AgreementPlans:Details?Code=">> \o prov_code_raw

\* whether the loops of lines 164-190 reach line 188 at all: the first linked
\* plan of the first agreement whose plans table has named columns and rows,
\* unless an exception ends the loop before
RECURSIVE MonthsFetched(_, _)
MonthsFetched(agr_rows, a) ==
    IF a > Len(agr_rows)
    THEN FALSE
    ELSE IF ~agr_rows[a].link
    THEN MonthsFetched(agr_rows, a + 1)
    ELSE LET df_plans == html_table_to_df_and_links(FetchTable(agr_rows[a].plans))
         IN  IF df_plans.raised
             THEN FALSE
             ELSE IF df_plans.rows = <<>>
             THEN MonthsFetched(agr_rows, a + 1)
             ELSE IF df_plans.columns = "positional"
             THEN FALSE
             ELSE IF \E i \in 1..Len(df_plans.rows) : df_plans.rows[i].link
             THEN TRUE
             ELSE MonthsFetched(agr_rows, a + 1)

DerivedUrls(prov_row, tree) ==
    LET kod == Get(prov_row, "Kod", StrCell(NoText))
        prov_code_raw == Strip(kod.text)
        agreements_df == html_table_to_df_and_links(FetchTable(tree))
    IN  IF kod.kind = "nan" \/ prov_code_raw = NoText
        THEN {}
        ELSE {AgreementsUrl(prov_code_raw), AgreementsReferer(prov_code_raw)}
                 \cup IF ~agreements_df.raised /\ MonthsFetched(agreements_df.rows, 1)
                      THEN {MonthsReferer(prov_code_raw)}
                      ELSE {}

\* ------------------------------------------------ rows of the provider list
ProviderCode(p) == <<"K", "/", ToString(p)>>
ProviderName(p) == <<"N", ToString(p)>>
ProviderCity(p) == <<"C", ToString(p)>>

\* a row of a DataFrame whose columns are the three expected names
NamedRow(code, p) ==
    [Kod |-> StrCell(code),
     Nazwa |-> StrCell(ProviderName(p)),
     Miasto |-> StrCell(ProviderCity(p))]
\* the same row of a page without those columns, after concat with a page
\* that has them
NaNRow == [Kod |-> NaNCell, Nazwa |-> NaNCell, Miasto |-> NaNCell]
\* a row of a DataFrame whose columns are not the expected names
\* (df_all.columns[:3])
PositionalRow(code, p) ==
    ("0" :> StrCell(code)) @@ ("1" :> StrCell(ProviderName(p)))
        @@ ("2" :> StrCell(ProviderCity(p)))

\* ============================ specification: one process_single_provider
CallIdle ==
    /\ e_pc = "idle" /\ e_row = NaNRow /\ e_tree = Unlinked
    /\ e_result = Returned(FALSE, <<>>) /\ e_urls = {}

ExpandIdle == CallIdle /\ TableIdle

ExpandInit ==
    /\ e_pc = "call"
    /\ \/ e_row = NamedRow(ProviderCode(1), 1) /\ e_tree \in Trees(MaxAgreements)
       \/ /\ e_row \in {NamedRow(NoText, 1), NaNRow, PositionalRow(ProviderCode(1), 1)}
          /\ e_tree \in Trees(1)
    /\ e_result = Returned(FALSE, <<>>)
    /\ e_urls = {}
    /\ TableIdle

ExpandCall ==
    /\ e_pc = "call"
    /\ e_result' = process_single_provider(e_row, e_tree)
    /\ e_urls' = DerivedUrls(e_row, e_tree)
    /\ e_pc' = "done"
    /\ UNCHANGED <<e_row, e_tree, tvars>>
    /\ UNCHANGED <<fvars, pvars>>

\* ==================================================== the provider listing
\* range(2, 100) at its model size: the futures are pages 2 .. PageLimit - 1
LastPage == PageLimit - 1
LaterPages == 2..LastPage

\* three provider subtrees the portal may serve in a pipeline run
HappyTree ==
    [kind |-> "named",
     rows |-> <<[link |-> TRUE,
                 plans |-> [kind |-> "named",
                            rows |-> <<[link |-> TRUE,
                                        months |-> [kind |-> "named",
                                                    rows |-> MonthRows(2)]]>>]]>>]
EmptyTree == [kind |-> "failed", rows |-> <<>>]
\* every fetch answers with rows and every row has a link, but the plans page
\* of the second agreement has no usable header row
HeaderlessTree ==
    [kind |-> "named",
     rows |-> <<[link |-> TRUE,
                 plans |-> [kind |-> "named",
                            rows |-> <<[link |-> TRUE,
                                        months |-> [kind |-> "named",
                                                    rows |-> MonthRows(1)]]>>]],
                [link |-> TRUE, plans |-> HeaderlessPlans]>>]
SiteTrees == {HappyTree, EmptyTree, HeaderlessTree}

\* one listing page: its kind, and the code and subtree of its single row
PageChoices(p) ==
    {[kind |-> k, kod |-> NoText, tree |-> Unlinked] : k \in {"failed", "empty", "named"}}
        \cup {[kind |-> "named", kod |-> ProviderCode(p), tree |-> t] : t \in SiteTrees}
        \cup {[kind |-> "positional", kod |-> ProviderCode(p), tree |-> HappyTree]}

PageTable(p) ==
    [kind |-> pages[p].kind,
     rows |-> IF pages[p].kind \in {"named", "positional"} THEN <<p>> ELSE <<>>]

\* what the portal serves for the agreements request of a provider code
SiteTree(code) ==
    LET ps == {p \in 1..LastPage : pages[p].kod = code /\ code # NoText}
    IN  IF ps = {} THEN EmptyTree ELSE pages[CHOOSE p \in ps : TRUE].tree

\* ============================================= get_all_providers_parallel
None == [raised |-> FALSE, columns |-> "None", rows |-> <<>>]

\* lines 95-102
fetch_page(page_num) ==
    LET table == FetchTable(PageTable(page_num))
    IN  IF table.kind = "None"
        THEN None
        ELSE LET df_page == html_table_to_df_and_links(table)
             IN  IF df_page.rows = <<>> THEN None ELSE df_page

\* lines 126-135: concat, then the projection on the expected columns, or on
\* the first three columns when none of them is there
ConcatProject(page_list) ==
    LET named == \E k \in 1..Len(page_list) : pages[page_list[k]].kind = "named"
        Row(p) ==
            IF ~named THEN PositionalRow(pages[p].kod, p)
            ELSE IF pages[p].kind = "named" THEN NamedRow(pages[p].kod, p)
            ELSE NaNRow
    IN  [columns |-> IF named THEN "named" ELSE "positional",
         rows |-> [k \in 1..Len(page_list) |-> Row(page_list[k])],
         origin |-> page_list]

EmptyDf == [columns |-> "none", rows |-> <<>>, origin |-> <<>>]

Running(f) == {x \in DOMAIN f : f[x] = "running"}

\* lines 105-114: page 1 synchronously, then every later page is submitted
FetchFirstPageSubmitsAnyway ==
    /\ pc = "walk_first"
    /\ providers' = IF fetch_page(1) = None THEN <<>> ELSE <<1>>
    /\ fut' = [p \in LaterPages |-> "pending"]
    /\ pc' = "walk_loop"
    /\ UNCHANGED <<pages, seen, providers_df, task, task_result, collected,
                   all_records, df_final, outcome, writes, run, first_run>>
    /\ UNCHANGED <<fvars, evars>>
FetchFirstPage ==
    /\ pc = "walk_first"
    /\ IF fetch_page(1) = None
       THEN /\ pc' = "walk_concat"
            /\ UNCHANGED <<providers, fut>>
       ELSE /\ providers' = <<1>>
            /\ fut' = [p \in LaterPages |-> "pending"]
            /\ pc' = "walk_loop"
    /\ UNCHANGED <<pages, seen, providers_df, task, task_result, collected,
                   all_records, df_final, outcome, writes, run, first_run>>
    /\ UNCHANGED <<fvars, evars>>

\* a pool thread takes the submitted page that has waited longest (the
\* executor's work queue is first in, first out)
StartPage(p) ==
    /\ fut[p] = "pending"
    /\ \A q \in LaterPages : q < p => fut[q] # "pending"
    /\ Cardinality(Running(fut)) < PageWorkers
    /\ fut' = [fut EXCEPT ![p] = "running"]
    /\ UNCHANGED <<pages, pc, seen, providers, providers_df, task, task_result,
                   collected, all_records, df_final, outcome, writes, run, first_run>>
    /\ UNCHANGED <<fvars, evars>>

\* fetch_page(p) returns in its thread
FinishPage(p) ==
    /\ fut[p] = "running"
    /\ fut' = [fut EXCEPT ![p] = "done"]
    /\ UNCHANGED <<pages, pc, seen, providers, providers_df, task, task_result,
                   collected, all_records, df_final, outcome, writes, run, first_run>>
    /\ UNCHANGED <<fvars, evars>>

\* lines 116-121: as_completed yields a finished future
YieldPage(p) ==
    /\ pc = "walk_loop"
    /\ fut[p] = "done"
    /\ p \notin seen
    /\ seen' = seen \cup {p}
    /\ IF fetch_page(p) # None
       THEN providers' = Append(providers, p) /\ pc' = pc
       ELSE providers' = providers /\ pc' = "walk_exit"
    /\ UNCHANGED <<pages, fut, providers_df, task, task_result, collected,
                   all_records, df_final, outcome, writes, run, first_run>>
    /\ UNCHANGED <<fvars, evars>>

\* line 116: as_completed has yielded every future
PagesExhausted ==
    /\ pc = "walk_loop"
    /\ seen = LaterPages
    /\ pc' = "walk_exit"
    /\ UNCHANGED <<pages, fut, seen, providers, providers_df, task, task_result,
                   collected, all_records, df_final, outcome, writes, run, first_run>>
    /\ UNCHANGED <<fvars, evars>>

\* line 113: leaving the with block waits for every submitted future
PagePoolExit ==
    /\ pc = "walk_exit"
    /\ \A p \in LaterPages : fut[p] = "done"
    /\ pc' = "walk_concat"
    /\ UNCHANGED <<pages, fut, seen, providers, providers_df, task, task_result,
                   collected, all_records, df_final, outcome, writes, run, first_run>>
    /\ UNCHANGED <<fvars, evars>>

\* lines 123-135
WalkerReturn ==
    /\ pc = "walk_concat"
    /\ providers_df' = IF providers = <<>> THEN EmptyDf ELSE ConcatProject(providers)
    /\ pc' = "check"
    /\ UNCHANGED <<pages, fut, seen, providers, task, task_result, collected,
                   all_records, df_final, outcome, writes, run, first_run>>
    /\ UNCHANGED <<fvars, evars>>

\* ================================================== run_pipeline_parallel
Tasks == 1..Len(providers_df.rows)

\* the subtree behind the agreements URL a provider row leads to
TreeOfRow(prov_row) == SiteTree(Strip(Get(prov_row, "Kod", StrCell(NoText)).text))

\* lines 255-259: str.split(' ').str[0] on the two code columns
TruncateCodes(rec) ==
    [rec EXCEPT !.KodUmowy = SplitFirst(@), !.KodProduktu = SplitFirst(@)]
Normalize(records) == [k \in 1..Len(records) |-> TruncateCodes(records[k])]

\* lines 244-245
ExtendReplaces(records, new) == IF new # <<>> THEN new ELSE records
Extend(records, new) == IF new # <<>> THEN records \o new ELSE records

\* lines 227-229
NoProviders ==
    /\ pc = "check"
    /\ providers_df.rows = <<>>
    /\ outcome' = "no_providers"
    /\ pc' = "done"
    /\ UNCHANGED <<pages, fut, seen, providers, providers_df, task, task_result,
                   collected, all_records, df_final, writes, run, first_run>>
    /\ UNCHANGED <<fvars, evars>>

\* lines 231-240: one task per provider row, handed to the pool
SubmitTasks ==
    /\ pc = "check"
    /\ providers_df.rows # <<>>
    /\ task' = [i \in Tasks |-> "running"]
    /\ task_result' = [i \in Tasks |-> Returned(FALSE, <<>>)]
    /\ pc' = "collect"
    /\ UNCHANGED <<pages, fut, seen, providers, providers_df, collected,
                   all_records, df_final, outcome, writes, run, first_run>>
    /\ UNCHANGED <<fvars, evars>>

\* process_single_provider returns or raises in its thread
FinishTask(i) ==
    /\ task[i] = "running"
    /\ task' = [task EXCEPT ![i] = "done"]
    /\ task_result' =
           [task_result EXCEPT
               ![i] = process_single_provider(providers_df.rows[i],
                                              TreeOfRow(providers_df.rows[i]))]
    /\ UNCHANGED <<pages, pc, fut, seen, providers, providers_df, collected,
                   all_records, df_final, outcome, writes, run, first_run>>
    /\ UNCHANGED <<fvars, evars>>

\* lines 242-245: as_completed yields a finished task; future.result()
\* re-raises what the task raised
CollectTask(i) ==
    /\ pc = "collect"
    /\ task[i] = "done"
    /\ i \notin collected
    /\ collected' = collected \cup {i}
    /\ IF task_result[i].status = "raised"
       THEN pc' = "abort" /\ all_records' = all_records
       ELSE pc' = pc /\ all_records' = Extend(all_records, task_result[i].records)
    /\ UNCHANGED <<pages, fut, seen, providers, providers_df, task, task_result,
                   df_final, outcome, writes, run, first_run>>
    /\ UNCHANGED <<fvars, evars>>

\* line 242: as_completed has yielded every task
TasksExhausted ==
    /\ pc = "collect"
    /\ collected = Tasks
    /\ pc' = "pool_exit"
    /\ UNCHANGED <<pages, fut, seen, providers, providers_df, task, task_result,
                   collected, all_records, df_final, outcome, writes, run, first_run>>
    /\ UNCHANGED <<fvars, evars>>

\* line 236: leaving the with block waits for every submitted task
TaskPoolExit ==
    /\ pc = "pool_exit"
    /\ \A i \in Tasks : task[i] = "done"
    /\ pc' = "finish"
    /\ UNCHANGED <<pages, fut, seen, providers, providers_df, task, task_result,
                   collected, all_records, df_final, outcome, writes, run, first_run>>
    /\ UNCHANGED <<fvars, evars>>

\* line 243 raised: the with block still waits for the other tasks, then the
\* exception leaves run_pipeline_parallel
AbortRun ==
    /\ pc = "abort"
    /\ \A i \in Tasks : task[i] = "done"
    /\ outcome' = "raised"
    /\ pc' = "done"
    /\ UNCHANGED <<pages, fut, seen, providers, providers_df, task, task_result,
                   collected, all_records, df_final, writes, run, first_run>>
    /\ UNCHANGED <<fvars, evars>>

\* lines 247-249
NoRecords ==
    /\ pc = "finish"
    /\ all_records = <<>>
    /\ outcome' = "no_records"
    /\ pc' = "done"
    /\ UNCHANGED <<pages, fut, seen, providers, providers_df, task, task_result,
                   collected, all_records, df_final, writes, run, first_run>>
    /\ UNCHANGED <<fvars, evars>>

\* lines 251-265
WriteResult ==
    /\ pc = "finish"
    /\ all_records # <<>>
    /\ df_final' = Normalize(all_records)
    /\ writes' = writes + 1
    /\ outcome' = "ok"
    /\ pc' = "done"
    /\ UNCHANGED <<pages, fut, seen, providers, providers_df, task, task_result,
                   collected, all_records, run, first_run>>
    /\ UNCHANGED <<fvars, evars>>

\* ------------------------------------------------------------ a second run
NoRun == [outcome |-> "none", relation |-> {}]
Relation(df) == {df[k] : k \in 1..Len(df)}

PipelineStart ==
    /\ pc = "walk_first"
    /\ fut = [p \in LaterPages |-> "unsubmitted"]
    /\ seen = {}
    /\ providers = <<>>
    /\ providers_df = EmptyDf
    /\ task = <<>>
    /\ task_result = <<>>
    /\ collected = {}
    /\ all_records = <<>>
    /\ df_final = <<>>
    /\ outcome = "running"
    /\ writes = 0

PipelineIdle ==
    /\ pages = <<>> /\ pc = "idle" /\ fut = <<>> /\ seen = {} /\ providers = <<>>
    /\ providers_df = EmptyDf /\ task = <<>> /\ task_result = <<>>
    /\ collected = {} /\ all_records = <<>> /\ df_final = <<>>
    /\ outcome = "none" /\ writes = 0 /\ run = 0 /\ first_run = NoRun

PipelineInit ==
    /\ pages \in {pg \in [1..LastPage -> UNION {PageChoices(p) : p \in 1..LastPage}] :
                    \A p \in 1..LastPage : pg[p] \in PageChoices(p)}
    /\ PipelineStart
    /\ run = 1
    /\ first_run = NoRun

\* the pipeline is started again against the same portal
Rerun ==
    /\ pc = "done"
    /\ run = 1
    /\ run' = 2
    /\ first_run' = [outcome |-> outcome, relation |-> Relation(df_final)]
    /\ pc' = "walk_first"
    /\ fut' = [p \in LaterPages |-> "unsubmitted"]
    /\ seen' = {}
    /\ providers' = <<>>
    /\ providers_df' = EmptyDf
    /\ task' = <<>>
    /\ task_result' = <<>>
    /\ collected' = {}
    /\ all_records' = <<>>
    /\ df_final' = <<>>
    /\ outcome' = "running"
    /\ writes' = 0
    /\ UNCHANGED pages
    /\ UNCHANGED <<fvars, evars>>

\* ========================================================= specifications
Init == FetchIdle /\ ExpandIdle /\ PipelineInit

Next ==
    \/ FetchFirstPage
    \/ \E p \in LaterPages : StartPage(p)
    \/ \E p \in LaterPages : FinishPage(p)
    \/ \E p \in LaterPages : YieldPage(p)
    \/ PagesExhausted
    \/ PagePoolExit
    \/ WalkerReturn
    \/ NoProviders
    \/ SubmitTasks
    \/ \E i \in DOMAIN task : FinishTask(i)
    \/ \E i \in DOMAIN task : CollectTask(i)
    \/ TasksExhausted
    \/ TaskPoolExit
    \/ AbortRun
    \/ NoRecords
    \/ WriteResult

Spec == Init /\ [][Next]_vars

\* two runs in a row against an unchanged portal
NextRerun == Next \/ Rerun
SpecRerun == Init /\ [][NextRerun]_vars

\* fetch alone
InitFetch == FetchInit /\ ExpandIdle /\ PipelineIdle
NextFetch == FetchLoopExit \/ FetchAttempt \/ FetchSleep
SpecFetch == InitFetch /\ [][NextFetch]_vars

\* fetch_cached alone: calls with any key, the server up or down at each
InitCache == FetchIdle /\ ExpandIdle /\ PipelineIdle
NextCache ==
    \/ \E key \in CacheKeys, up \in BOOLEAN : CachedHit(key, up)
    \/ \E key \in CacheKeys, up \in BOOLEAN : CachedMiss(key, up)
SpecCache == InitCache /\ [][NextCache]_vars

\* html_table_to_df_and_links alone, on any small table
InitTable == FetchIdle /\ CallIdle /\ TableInit /\ PipelineIdle
NextTable == TableCall
SpecTable == InitTable /\ [][NextTable]_vars

\* process_single_provider alone
InitExpand == FetchIdle /\ ExpandInit /\ PipelineIdle
NextExpand == ExpandCall
SpecExpand == InitExpand /\ [][NextExpand]_vars

\* ================================================================= claims
AllFail == \A k \in DOMAIN f_outcomes : f_outcomes[k] # "ok"
OkAttempts == {k \in 0..f_max - 1 : f_outcomes[k + 1] = "ok"}
Min(S) == CHOOSE x \in S : \A y \in S : x <= y

\* C5: fetch never raises; it returns the body of the first successful
\* attempt, or None once all max_retries attempts have failed, and it sends
\* no request after a successful one.
C5_FetchOutcomeIsValue ==
    /\ f_pc # "raised"
    /\ OkAttempts # {} => f_requests <= Min(OkAttempts) + 1
    /\ f_pc = "returned" =>
          IF OkAttempts = {}
          THEN f_result = NoneResult /\ f_requests = f_max
          ELSE f_result = Body(Min(OkAttempts)) /\ f_requests = Min(OkAttempts) + 1

C5_Witness ==
    /\ f_pc = "returned"
    /\ f_outcomes[1] = "status" /\ f_outcomes[2] = "timeout"
    /\ f_result = Body(2)

\* C6 as claimed: with every attempt failing, max_retries = n >= 1 gives n
\* retries after the initial attempt (n + 1 requests) and the waits
\* 0.5 * 2^k s for k = 0 .. n-1.
C6_RetriesAfterInitialAttempt ==
    (f_pc = "returned" /\ AllFail /\ f_max >= 1) =>
        /\ f_requests = f_max + 1
        /\ f_waits = [k \in 1..f_max |-> BackoffBaseMs * 2 ^ (k - 1)]

\* C6 as amended: with every attempt failing, max_retries = n gives n requests
\* in all (the initial attempt and n-1 retries; none when n = 0), the waits
\* 0.5 * 2^k s before the k-th retry for k = 0 .. n-2, failure only after the
\* last attempt has failed, and no wait after that attempt.
C6_AttemptBudgetAndBackoff ==
    /\ AllFail => Len(f_waits) <= f_requests
    /\ (f_pc = "returned" /\ AllFail) =>
          /\ f_result = NoneResult
          /\ f_requests = f_max
          /\ f_waits = [k \in 1..f_max - 1 |-> BackoffBaseMs * 2 ^ (k - 1)]

C6_Witness ==
    /\ f_pc = "returned" /\ AllFail /\ f_max = 3
    /\ f_requests = 3
    /\ f_waits = <<500, 1000>>

\* ---- process_single_provider
HasRows(t) == t.kind \in {"named", "positional"} /\ t.rows # <<>>

\* the (agreement, plan, month) paths of a tree all of whose three fetches
\* returned a table with rows, each row on the way carrying its link
LivePaths(tree) ==
    IF ~HasRows(tree) THEN {}
    ELSE UNION {
        IF tree.rows[a].link /\ HasRows(tree.rows[a].plans)
        THEN UNION {
            IF tree.rows[a].plans.rows[i].link
                 /\ HasRows(tree.rows[a].plans.rows[i].months)
            THEN {<<a, i, m>> :
                    m \in 1..Len(tree.rows[a].plans.rows[i].months.rows)}
            ELSE {} : i \in 1..Len(tree.rows[a].plans.rows)}
        ELSE {} : a \in 1..Len(tree.rows)}

\* the record that belongs to a path below a provider row
RecordOfPath(prov_row, tree, path) ==
    [Rok |-> Year,
     KodSwiadczeniodawcy |-> prov_row.Kod.text,
     Nazwa |-> prov_row.Nazwa.text,
     Miasto |-> prov_row.Miasto.text,
     KodUmowy |-> AgreementCode(prov_row.Kod.text, path[1]),
     KodProduktu |-> ProductCode(path[1], path[2]),
     month |-> tree.rows[path[1]].plans.rows[path[2]].months.rows[path[3]]]

\* C3 as claimed: a provider whose expansion raised inside the try block
\* contributes no record.
C3_FaultMeansZeroRecords ==
    (e_pc = "done" /\ e_result.faulted) => e_result.records = <<>>

\* C7: every record a provider task returns belongs to exactly one
\* (agreement, plan, month) path whose three fetches returned rows, and no
\* two records belong to the same path.
C7_RecordsOnlyFromLivePaths ==
    e_pc = "done" =>
        \A j \in 1..Len(e_result.records) :
            /\ Cardinality({path \in LivePaths(e_tree) :
                   RecordOfPath(e_row, e_tree, path) = e_result.records[j]}) = 1
            /\ \A k \in 1..Len(e_result.records) :
                   e_result.records[k] = e_result.records[j] => k = j

C7_Witness ==
    /\ e_pc = "done"
    /\ Len(e_result.records) = 1
    /\ e_tree.kind = "named" /\ Len(e_tree.rows) = 2
    /\ e_tree.rows[1].link /\ e_tree.rows[1].plans.kind = "failed"
    /\ e_tree.rows[2].link /\ e_tree.rows[2].plans.kind = "named"

\* ---- the walker
Walked == pc \in {"check", "collect", "pool_exit", "abort", "finish", "done"}

\* the lowest-numbered page without rows (LastPage + 1 when every page has rows)
FirstEmptyPage ==
    Min({p \in 1..LastPage : fetch_page(p) = None} \cup {LastPage + 1})

\* C1 as claimed: no returned row comes from a page at or beyond the first
\* empty page.
C1_NoRowBeyondFirstEmptyPage ==
    Walked => \A k \in 1..Len(providers_df.origin) :
                  providers_df.origin[k] < FirstEmptyPage

\* C2 as claimed: every page below the first empty page has its rows in the
\* returned provider set.
C2_AllRowsBelowFirstEmptyPage ==
    Walked => \A p \in 1..LastPage :
                  p < FirstEmptyPage =>
                      \E k \in 1..Len(providers_df.origin) : providers_df.origin[k] = p

\* ---- the coordinator
RECURSIVE Concat(_, _)
Concat(lists, n) == IF n = 0 THEN <<>> ELSE Concat(lists, n - 1) \o lists[n]

Count(seq, r) == Cardinality({k \in 1..Len(seq) : seq[k] = r})
SameBag(s, t) ==
    /\ Len(s) = Len(t)
    /\ \A k \in 1..Len(s) : Count(s, s[k]) = Count(t, s[k])

\* C4 as claimed: no fault of a provider task leaves run_pipeline_parallel,
\* and the final relation holds every record of every task that returned.
C4_FaultsStayInsideTheirTask ==
    pc = "done" =>
        /\ outcome # "raised"
        /\ \A i \in DOMAIN task_result :
               \A k \in 1..Len(task_result[i].records) :
                   \E j \in 1..Len(df_final) :
                       df_final[j] = TruncateCodes(task_result[i].records[k])

\* the records the portal holds below the providers handed to the coordinator
ExpectedRecords ==
    UNION {{TruncateCodes(RecordOfPath(providers_df.rows[i],
                                       TreeOfRow(providers_df.rows[i]), path)) :
               path \in LivePaths(TreeOfRow(providers_df.rows[i]))} : i \in Tasks}

RECURSIVE EveryRowLinked(_, _)
EveryRowLinked(t, depth) ==
    /\ t.kind # "failed"
    /\ depth > 0 =>
          \A k \in 1..Len(t.rows) :
              /\ t.rows[k].link
              /\ EveryRowLinked(IF depth = 2 THEN t.rows[k].plans ELSE t.rows[k].months,
                                depth - 1)

AllSucceedAndLinked ==
    \A i \in Tasks :
        /\ "Kod" \in DOMAIN providers_df.rows[i]
        /\ providers_df.rows[i].Kod.kind = "str"
        /\ providers_df.rows[i].Kod.text # NoText
        /\ EveryRowLinked(TreeOfRow(providers_df.rows[i]), 2)

\* C8 as claimed: when every fetch succeeds, every provider has a code and
\* every agreement and plan row a link, the final relation holds exactly one
\* record per month row below the providers, with its own ancestors' codes.
C8_OneRecordPerMonthRow ==
    (pc = "done" /\ providers_df.rows # <<>> /\ AllSucceedAndLinked) =>
        /\ Relation(df_final) = ExpectedRecords
        /\ Len(df_final) = Cardinality(ExpectedRecords)

C10_SecondRunSameRelation ==
    (run = 2 /\ pc = "done") => Relation(df_final) = first_run.relation

\* ---- fetch_cached
\* C11 as claimed: after a call that really fetched and returned None, a
\* later call with the same (url, referer), made when the server answers,
\* fetches again and returns the body.
C11_FailureIsNotRemembered ==
    \A i, j \in 1..Len(c_log) :
        (/\ i < j
         /\ c_log[i].key = c_log[j].key
         /\ c_log[i].real /\ c_log[i].result = NoneResult
         /\ c_log[j].up)
            => c_log[j].real /\ c_log[j].result = Body(0)

\* ---- the write and the outcomes without one
\* C12 as claimed: to_excel is never invoked while a provider task is still
\* running, and a run that has collected at least one record ends having
\* invoked it exactly once.
C12_OneWriteAfterEveryTask ==
    /\ writes > 0 => \A i \in DOMAIN task : task[i] = "done"
    /\ (pc = "done" /\ all_records # <<>>) => writes = 1

\* C13 as claimed: a run that found no providers starts no task, and a run
\* that found none or whose tasks yielded no record at all ends with the
\* warning outcome, without a write and without an exception.
C13_EmptyResultIsNonFatal ==
    pc = "done" =>
        /\ providers_df.rows = <<>> =>
               outcome = "no_providers" /\ writes = 0 /\ task = <<>>
        /\ (/\ providers_df.rows # <<>>
            /\ \A i \in Tasks : task_result[i].records = <<>>) =>
               outcome = "no_records" /\ writes = 0

\* ---- html_table_to_df_and_links
\* C14 as claimed: every data row whose cell count differs from the header
\* count, the first row or a later one, comes back addressed by position, its
\* cells under 0, 1, ... and under no header name.
C14_MismatchedRowIsPositional ==
    t_pc = "done" =>
        LET data == DataRows(t_trs)
        IN  \A r \in 1..Len(data) :
                Len(data[r].tds) # Len(t_headers) =>
                    /\ ~t_df.raised
                    /\ \A c \in 1..Len(t_df.columns) :
                           t_df.columns[c] = ToString(c - 1)
                    /\ \A c \in 1..Len(data[r].tds) :
                           t_df.rows[r][c] = data[r].tds[c]

\* ---- the first page
\* C15: no later page is submitted before fetch_page(1) has returned, and
\* when page 1 has no rows none is ever submitted or requested and the walker
\* returns the empty provider set.
C15_FirstPageGate ==
    /\ pc = "walk_first" => \A p \in LaterPages : fut[p] = "unsubmitted"
    /\ (pc \notin {"idle", "walk_first"} /\ fetch_page(1) = None) =>
           /\ \A p \in LaterPages : fut[p] = "unsubmitted"
           /\ providers = <<>>
           /\ Walked => providers_df = EmptyDf

C15_Witness ==
    /\ pc = "done"
    /\ fetch_page(1) = None
    /\ \A p \in LaterPages : fetch_page(p) # None /\ fut[p] = "unsubmitted"
    /\ providers_df = EmptyDf
    /\ outcome = "no_providers"

\* ---- URLs derived from the provider code
\* C16 as claimed: when the provider code contains "/", every URL built from
\* it, request URL or Referer, carries "%2F" in its place and no "/" of the
\* code.
C16_EveryDerivedUrlIsEncoded ==
    (/\ e_pc = "done"
     /\ \E k \in 1..Len(Get(e_row, "Kod", StrCell(NoText)).text) :
            Get(e_row, "Kod", StrCell(NoText)).text[k] = "/") =>
        \A u \in e_urls :
            /\ \A k \in 1..Len(u) : u[k] # "/"
            /\ \E k \in 1..Len(u) : u[k] = "%2F"

\* ---- the walker after an empty page
\* C17 as claimed: once as_completed has handed the coordinator a page
\* without rows, no page fetch still waiting for a pool thread is started.
ObservedEmptyPage == \E p \in seen : fetch_page(p) = None

C17_NoStartAfterEmptyPage ==
    [][ObservedEmptyPage =>
          \A q \in LaterPages : fut[q] = "pending" => fut'[q] = "pending"]_vars

\* ---- the page bound
PageRequested(p) ==
    IF p = 1 THEN pc # "walk_first"
    ELSE p \in LaterPages /\ fut[p] \in {"running", "done"}

\* C18 as claimed: no page above PageLimit (the 100 of the source) is
\* requested, and when the portal serves rows on every page the walker has
\* requested each of the pages 1..PageLimit and returned the rows of those it
\* got.
C18_AllPagesUpToTheBound ==
    /\ \A p \in DOMAIN fut : p <= PageLimit
    /\ (Walked /\ \A p \in 1..LastPage : fetch_page(p) # None) =>
           \A p \in 1..PageLimit :
               /\ PageRequested(p)
               /\ p <= LastPage =>
                      \E k \in 1..Len(providers_df.origin) : providers_df.origin[k] = p

\* ---- skipped nodes
\* a plans table and a months table whose fetch returns rows
LiveMonths == [kind |-> "named", rows |-> MonthRows(1)]
LivePlans == [kind |-> "named", rows |-> <<[link |-> TRUE, months |-> LiveMonths]>>]

Skipped(t) == t.kind \in {"failed", "empty"}
WithPlans(tree, a, plans) == [tree EXCEPT !.rows[a].plans = plans]
WithMonths(tree, a, i, months) ==
    [tree EXCEPT !.rows[a].plans.rows[i].months = months]

FromAgreement(rec, a) == rec.KodUmowy = AgreementCode(rec.KodSwiadczeniodawcy, a)
FromPlan(rec, a, i) == FromAgreement(rec, a) /\ rec.KodProduktu = ProductCode(a, i)

C20_PositionalProviderIsExpanded ==
    (/\ e_pc = "done"
     /\ "0" \in DOMAIN e_row
     /\ Strip(e_row["0"].text) # NoText) =>
        /\ AgreementsUrl(Strip(e_row["0"].text)) \in e_urls
        /\ Len(e_result.records) =
               Len(process_single_provider(NamedRow(e_row["0"].text, 1), e_tree).records)

====
